---------------------------- MODULE Spec2Model ----------------------------
(***************************************************************************)
(* Model of the calculation layer of the finance/consulting tool:          *)
(*   src/finance_consulting/business_analyzer.py   (BusinessAnalyzer)      *)
(*   src/finance_consulting/financial_calculator.py (FinancialCalculator)  *)
(*                                                                         *)
(* Every function is a static method without state, so the state machine   *)
(* is one call: Init draws the function and its arguments, the function's  *)
(* action applies it and stores what the call produced, either a returned  *)
(* dict or a raised exception. history keeps the calls made, each with     *)
(* the arguments as passed and as the call left them; in a session         *)
(* (SessionSpec) the caller goes on to make further calls. The functions   *)
(* with a loop of their own interest are run step by step, and locals      *)
(* holds their local variables meanwhile.                                  *)
(*                                                                         *)
(* Numbers are exact rationals <<n, d>> in lowest terms with d > 0.        *)
(* Python computes in binary floating point; the model computes the same   *)
(* expressions exactly and rounds with round-half-even, which is what      *)
(* Python's round() does on the value it is given.                         *)
(***************************************************************************)
EXTENDS Integers, Sequences, FiniteSets, TLC

VARIABLES fn, args, result, history, locals

vars == <<fn, args, result, history, locals>>

---------------------------------------------------------------------------
(* Exact arithmetic: Python's +, -, *, /, comparisons, ** and round().     *)

Abs(n) == IF n < 0 THEN -n ELSE n

RECURSIVE Gcd(_, _)
Gcd(a, b) == IF b = 0 THEN a ELSE Gcd(b, a % b)

\* The rational n/d (d # 0) in lowest terms with a positive denominator.
Rat(n, d) ==
    LET g == Gcd(Abs(n), Abs(d))
        s == IF d < 0 THEN -1 ELSE 1
    IN  <<(s * n) \div g, (s * d) \div g>>

Num(n) == <<n, 1>>

Zero == Num(0)

Add(x, y) == Rat(x[1] * y[2] + y[1] * x[2], x[2] * y[2])

Sub(x, y) == Rat(x[1] * y[2] - y[1] * x[2], x[2] * y[2])

\* Cross-cancelled first, so that the products stay small.
Mul(x, y) ==
    LET a == Rat(x[1], y[2])
        b == Rat(y[1], x[2])
    IN  <<a[1] * b[1], a[2] * b[2]>>

\* x / y for y # 0; every caller tests the divisor first, as Python raises
\* ZeroDivisionError before computing anything.
Div(x, y) == Mul(x, Rat(y[2], y[1]))

\* Compared over the least common denominator, so that the products stay
\* small.
Lt(x, y) ==
    LET g == Gcd(x[2], y[2])
    IN  x[1] * (y[2] \div g) < y[1] * (x[2] \div g)

Le(x, y) ==
    LET g == Gcd(x[2], y[2])
    IN  x[1] * (y[2] \div g) <= y[1] * (x[2] \div g)

IsZero(x) == x[1] = 0

\* x ** k for an integer k >= 0, by squaring.
RECURSIVE Pow(_, _)
Pow(x, k) ==
    IF k = 0 THEN Num(1)
    ELSE LET half == Pow(x, k \div 2)
             square == Mul(half, half)
         IN  IF k % 2 = 0 THEN square ELSE Mul(square, x)

RECURSIVE Pow10(_)
Pow10(k) == IF k = 0 THEN 1 ELSE 10 * Pow10(k - 1)

\* round(x, ndigits): the nearest multiple of 10^-ndigits, a tie going to
\* the even one.
round(x, ndigits) ==
    LET g   == Gcd(x[2], Pow10(ndigits))
        num == x[1] * (Pow10(ndigits) \div g)
        den == x[2] \div g
        q   == num \div den
        rem == num % den
        up  == \/ 2 * rem > den
               \/ 2 * rem = den /\ q % 2 # 0
    IN  Rat(IF up THEN q + 1 ELSE q, Pow10(ndigits))

---------------------------------------------------------------------------
(* What a call produces.                                                   *)

NoResult == [kind |-> "none"]

\* return d, where d is a dict: a function from its keys.
Return(d) == [kind |-> "return", value |-> d]

\* An exception leaves the function.
Raise(e) == [kind |-> "raise", exc |-> e]

\* An expression evaluates to v (and raises nothing).
Value(v) == [kind |-> "value", value |-> v]

\* No function is running step by step: there are no locals.
NoLocals == <<>>

Returned == result.kind = "return"

Raised == result.kind = "raise"

Keys == IF Returned THEN DOMAIN result.value ELSE {}

---------------------------------------------------------------------------
(* BusinessAnalyzer, src/finance_consulting/business_analyzer.py           *)
(*                                                                         *)
(* Each function is modelled in two steps, as it is written: X_locals is   *)
(* the body up to its return statement and yields the local variables      *)
(* (or the exception raised, or the dict of an early return), and X is     *)
(* the return statement, which rounds the locals into the result dict.     *)

\* None, the default of an omitted investment_period_years: no number.
None == <<>>

Hundred == Num(100)

\* The largest s in lo..hi with s * s <= n (given lo * lo <= n).
RECURSIVE ISqrtIn(_, _, _)
ISqrtIn(n, lo, hi) ==
    IF lo = hi THEN lo
    ELSE LET mid == (lo + hi + 1) \div 2
         IN  IF mid * mid <= n THEN ISqrtIn(n, mid, hi) ELSE ISqrtIn(n, lo, mid - 1)

\* isqrt(n) for 0 <= n < 2^31: no root exceeds 46340.
ISqrt(n) == ISqrtIn(n, 0, IF n < 46340 THEN n ELSE 46340)

IsSquare(n) == n >= 0 /\ ISqrt(n) * ISqrt(n) = n

\* The irrational number ((n/d) ** (1/2) - 1) * 100, kept as the triple
\* <<n, d, 2>>; every other number of the model is a pair.
IsSurd(x) == Len(x) = 3

\* round(x, 2) of the surd x = <<n, d, 2>>: from the integer nearest to
\* 10^4 * sqrt(n/d), which is never a tie.
round_surd(x) ==
    LET big == Pow10(8) * x[1]
        f   == big \div x[2]
        s   == ISqrt(f)
        up  == \/ f > s * s + s
               \/ f = s * s + s /\ 4 * (big % x[2]) > x[2]
    IN  Rat((IF up THEN s + 1 ELSE s) - Pow10(4), 100)

\* round() of a local that may be a surd.
round_real(x, ndigits) == IF IsSurd(x) THEN round_surd(x) ELSE round(x, ndigits)

\* The exponent 1/period is a whole number e: period is 1/e.
IsUnitFraction(period) == Abs(period[1]) = 1

\* ((base ** (1/period)) - 1) * 100, or the exception that the power
\* raises, or that round() raises on the complex number a negative base
\* gives. The model draws period from the unit fractions 1/e (the power is
\* base ** e) and 2 (the power is a square root).
annualized_roi(base, period) ==
    LET e == period[2] * period[1]
    IN  IF IsZero(period) THEN Raise("ZeroDivisionError")
        ELSE IF IsUnitFraction(period)
        THEN IF e > 0
             THEN Value(Mul(Sub(Pow(base, e), Num(1)), Hundred))
             ELSE IF IsZero(base)
                  THEN Raise("ZeroDivisionError")
                  ELSE Value(Mul(Sub(Pow(Div(Num(1), base), -e), Num(1)), Hundred))
        ELSE IF Lt(base, Zero)
             THEN Raise("TypeError")
             ELSE IF IsSquare(base[1]) /\ IsSquare(base[2])
                  THEN Value(Mul(Sub(Rat(ISqrt(base[1]), ISqrt(base[2])), Num(1)),
                                 Hundred))
                  ELSE Value(<<base[1], base[2], 2>>)

\* Truthy as the test investment_period_years is not None.
Truthy_is_not_none(x) == x # None

\* if investment_period_years: None and zero are false.
Truthy(x) == x # None /\ ~IsZero(x)

\* calculate_roi_locals with a zero guard in the manner of
\* calculate_profit_margin: no division by an initial_investment of 0.
calculate_roi_locals_guarded(initial_investment, final_value, investment_period_years) ==
    IF IsZero(initial_investment) THEN Value([roi |-> Zero])
    ELSE
    LET roi == Mul(Div(Sub(final_value, initial_investment), initial_investment),
                   Hundred)
    IN  IF ~Truthy(investment_period_years)
        THEN Value([roi |-> roi])
        ELSE LET a == annualized_roi(Div(final_value, initial_investment),
                                     investment_period_years)
             IN  IF a.kind = "raise" THEN a
                 ELSE Value([roi |-> roi, annualized_roi |-> a.value])

calculate_roi_locals(initial_investment, final_value, investment_period_years) ==
    IF IsZero(initial_investment) THEN Raise("ZeroDivisionError")
    ELSE
    LET roi == Mul(Div(Sub(final_value, initial_investment), initial_investment),
                   Hundred)
    IN  IF ~Truthy(investment_period_years)
        THEN Value([roi |-> roi])
        ELSE LET a == annualized_roi(Div(final_value, initial_investment),
                                     investment_period_years)
             IN  IF a.kind = "raise" THEN a
                 ELSE Value([roi |-> roi, annualized_roi |-> a.value])

calculate_roi(initial_investment, final_value, investment_period_years) ==
    LET l == calculate_roi_locals(initial_investment, final_value,
                                  investment_period_years)
    IN  IF l.kind # "value" THEN l
        ELSE IF "annualized_roi" \in DOMAIN l.value
        THEN Return([roi_percentage |-> round(l.value.roi, 2),
                     annualized_roi_percentage |->
                         round_real(l.value.annualized_roi, 2)])
        ELSE Return([roi_percentage |-> round(l.value.roi, 2)])

\* calculate_break_even_point_locals with the guard written
\* contribution_margin < 0.
calculate_break_even_point_locals_strict(fixed_costs, variable_cost_per_unit, price_per_unit) ==
    LET contribution_margin == Sub(price_per_unit, variable_cost_per_unit)
    IN  IF Lt(contribution_margin, Zero)
        THEN Return([error |->
                 "Price per unit must be greater than variable cost per unit"])
        ELSE IF IsZero(contribution_margin) THEN Raise("ZeroDivisionError")
        ELSE
        LET break_even_units == Div(fixed_costs, contribution_margin)
            break_even_revenue == Mul(break_even_units, price_per_unit)
        IN  Value([break_even_units    |-> break_even_units,
                   break_even_revenue  |-> break_even_revenue,
                   contribution_margin |-> contribution_margin])

calculate_break_even_point_locals(fixed_costs, variable_cost_per_unit, price_per_unit) ==
    LET contribution_margin == Sub(price_per_unit, variable_cost_per_unit)
    IN  IF Le(contribution_margin, Zero)
        THEN Return([error |->
                 "Price per unit must be greater than variable cost per unit"])
        ELSE IF IsZero(contribution_margin) THEN Raise("ZeroDivisionError")
        ELSE
        LET break_even_units == Div(fixed_costs, contribution_margin)
            break_even_revenue == Mul(break_even_units, price_per_unit)
        IN  Value([break_even_units    |-> break_even_units,
                   break_even_revenue  |-> break_even_revenue,
                   contribution_margin |-> contribution_margin])

calculate_break_even_point(fixed_costs, variable_cost_per_unit, price_per_unit) ==
    LET l == calculate_break_even_point_locals(fixed_costs, variable_cost_per_unit,
                                               price_per_unit)
    IN  IF l.kind # "value" THEN l
        ELSE Return([break_even_units    |-> round(l.value.break_even_units, 2),
                     break_even_revenue  |-> round(l.value.break_even_revenue, 2),
                     contribution_margin |-> round(l.value.contribution_margin, 2)])

\* calculate_profit_margin_locals with the margin guarded by revenue != 0.
calculate_profit_margin_locals_nonzero(revenue, total_costs) ==
    LET profit == Sub(revenue, total_costs)
    IN  Value([profit |-> profit,
               profit_margin |-> IF ~IsZero(revenue)
                                 THEN Mul(Div(profit, revenue), Hundred)
                                 ELSE Zero])

calculate_profit_margin_locals(revenue, total_costs) ==
    LET profit == Sub(revenue, total_costs)
    IN  Value([profit |-> profit,
               profit_margin |-> IF Lt(Zero, revenue)
                                 THEN Mul(Div(profit, revenue), Hundred)
                                 ELSE Zero])

\* calculate_profit_margin with profit_ratio rounded like the other fields.
calculate_profit_margin_ratio_2(revenue, total_costs) ==
    LET l == calculate_profit_margin_locals(revenue, total_costs)
    IN  IF l.kind # "value" THEN l
        ELSE Return([profit |-> round(l.value.profit, 2),
                     profit_margin_percentage |-> round(l.value.profit_margin, 2),
                     profit_ratio |-> IF Lt(Zero, revenue)
                                      THEN round(Div(l.value.profit, revenue), 2)
                                      ELSE Zero])

calculate_profit_margin(revenue, total_costs) ==
    LET l == calculate_profit_margin_locals(revenue, total_costs)
    IN  Return([profit |-> round(l.value.profit, 2),
                profit_margin_percentage |-> round(l.value.profit_margin, 2),
                profit_ratio |-> IF Lt(Zero, revenue)
                                 THEN round(Div(l.value.profit, revenue), 4)
                                 ELSE Zero])

\* The for loop of calculate_payback_period from the 1-based year on, with
\* cumulative_cash_flow as it stands before that year: how the loop ends.
RECURSIVE payback_loop(_, _, _, _)
payback_loop(initial_investment, annual_cash_flows, year, cumulative_cash_flow) ==
    IF year > Len(annual_cash_flows) THEN [kind |-> "else"]
    ELSE
    LET cash_flow == annual_cash_flows[year]
        cumulative == Add(cumulative_cash_flow, cash_flow)
    IN  IF Le(initial_investment, cumulative)
        THEN IF IsZero(cash_flow) THEN Raise("ZeroDivisionError")
             ELSE LET excess == Sub(cumulative, initial_investment)
                      fraction_of_year == Sub(Num(1), Div(excess, cash_flow))
                  IN  [kind |-> "break", year |-> year,
                       payback_years |-> Add(Num(year - 1), fraction_of_year)]
        ELSE payback_loop(initial_investment, annual_cash_flows, year + 1,
                          cumulative)

\* annual_cash_flows_after with the loop taking each cash flow off the
\* front of the list as it reads it (annual_cash_flows.pop(0)).
annual_cash_flows_popped(initial_investment, annual_cash_flows) ==
    LET end == payback_loop(initial_investment, annual_cash_flows, 1, Zero)
    IN  IF end.kind = "break"
        THEN SubSeq(annual_cash_flows, end.year + 1, Len(annual_cash_flows))
        ELSE <<>>

\* The caller's list annual_cash_flows after the call: the loop iterates
\* over it with enumerate and assigns to locals only.
annual_cash_flows_after(initial_investment, annual_cash_flows) ==
    annual_cash_flows

\* calculate_payback_period_locals with the years counted from 0, as
\* enumerate(annual_cash_flows) without its start would.
calculate_payback_period_locals_from_zero(initial_investment, annual_cash_flows) ==
    LET end == payback_loop(initial_investment, annual_cash_flows, 1, Zero)
    IN  IF end.kind = "raise" THEN end
        ELSE IF end.kind = "else"
        THEN Return([error |->
                 "Investment not recovered within the given cash flow period"])
        ELSE Value([payback_years  |-> Sub(end.payback_years, Num(1)),
                    payback_months |-> Mul(Sub(end.payback_years, Num(1)), Num(12))])

calculate_payback_period_locals(initial_investment, annual_cash_flows) ==
    LET end == payback_loop(initial_investment, annual_cash_flows, 1, Zero)
    IN  IF end.kind = "raise" THEN end
        ELSE IF end.kind = "else"
        THEN Return([error |->
                 "Investment not recovered within the given cash flow period"])
        ELSE Value([payback_years  |-> end.payback_years,
                    payback_months |-> Mul(end.payback_years, Num(12))])

calculate_payback_period(initial_investment, annual_cash_flows) ==
    LET l == calculate_payback_period_locals(initial_investment, annual_cash_flows)
    IN  IF l.kind # "value" THEN l
        ELSE Return([payback_years  |-> round(l.value.payback_years, 2),
                     payback_months |-> round(l.value.payback_months, 1)])

\* financial_ratio_analysis_locals with one guard for all four ratios.
financial_ratio_analysis_locals_one_guard(revenue, total_assets, current_assets, current_liabilities, net_income) ==
    IF Lt(Zero, total_assets) /\ Lt(Zero, current_liabilities) /\ Lt(Zero, revenue)
    THEN Value([asset_turnover |-> Div(revenue, total_assets),
                current_ratio |-> Div(current_assets, current_liabilities),
                roa |-> Mul(Div(net_income, total_assets), Hundred),
                net_profit_margin |-> Mul(Div(net_income, revenue), Hundred)])
    ELSE Value([asset_turnover |-> Zero, current_ratio |-> Zero, roa |-> Zero,
                net_profit_margin |-> Zero])

financial_ratio_analysis_locals(revenue, total_assets, current_assets, current_liabilities, net_income) ==
    Value([asset_turnover |-> IF Lt(Zero, total_assets)
                              THEN Div(revenue, total_assets) ELSE Zero,
           current_ratio |-> IF Lt(Zero, current_liabilities)
                             THEN Div(current_assets, current_liabilities)
                             ELSE Zero,
           roa |-> IF Lt(Zero, total_assets)
                   THEN Mul(Div(net_income, total_assets), Hundred) ELSE Zero,
           net_profit_margin |-> IF Lt(Zero, revenue)
                                 THEN Mul(Div(net_income, revenue), Hundred)
                                 ELSE Zero])

financial_ratio_analysis(revenue, total_assets, current_assets, current_liabilities, net_income) ==
    LET l == financial_ratio_analysis_locals(revenue, total_assets, current_assets,
                                             current_liabilities, net_income)
    IN  Return([asset_turnover_ratio         |-> round(l.value.asset_turnover, 2),
                current_ratio                |-> round(l.value.current_ratio, 2),
                return_on_assets_percentage  |-> round(l.value.roa, 2),
                net_profit_margin_percentage |->
                    round(l.value.net_profit_margin, 2)])

---------------------------------------------------------------------------
(* FinancialCalculator, src/finance_consulting/financial_calculator.py     *)

Twelve == Num(12)

\* calculate_compound_interest's default compounds_per_year.
DefaultCompounds == 12

calculate_loan_payment_locals(principal, annual_rate, years) ==
    LET monthly_rate == Div(annual_rate, Twelve)
        num_payments == years * 12
        growth == Pow(Add(Num(1), monthly_rate), num_payments)
    IN  IF IsZero(monthly_rate) /\ num_payments = 0
        THEN Raise("ZeroDivisionError")
        ELSE IF ~IsZero(monthly_rate) /\ IsZero(Sub(growth, Num(1)))
        THEN Raise("ZeroDivisionError")
        ELSE
        LET monthly_payment ==
                IF IsZero(monthly_rate)
                THEN Div(principal, Num(num_payments))
                ELSE Div(Mul(principal, Mul(monthly_rate, growth)),
                         Sub(growth, Num(1)))
            total_payment == Mul(monthly_payment, Num(num_payments))
        IN  Value([monthly_payment |-> monthly_payment,
                   total_payment   |-> total_payment,
                   total_interest  |-> Sub(total_payment, principal)])

\* calculate_loan_payment with the totals taken from the rounded payment.
calculate_loan_payment_rounded_first(principal, annual_rate, years) ==
    LET l == calculate_loan_payment_locals(principal, annual_rate, years)
        monthly_payment == round(l.value.monthly_payment, 2)
        total_payment == Mul(monthly_payment, Num(years * 12))
    IN  IF l.kind # "value" THEN l
        ELSE Return([monthly_payment |-> monthly_payment,
                     total_payment   |-> round(total_payment, 2),
                     total_interest  |-> round(Sub(total_payment, principal), 2)])

calculate_loan_payment(principal, annual_rate, years) ==
    LET l == calculate_loan_payment_locals(principal, annual_rate, years)
    IN  IF l.kind # "value" THEN l
        ELSE Return([monthly_payment |-> round(l.value.monthly_payment, 2),
                     total_payment   |-> round(l.value.total_payment, 2),
                     total_interest  |-> round(l.value.total_interest, 2)])

\* calculate_compound_interest_locals with the exponent compounds_per_year,
\* the years left out.
calculate_compound_interest_locals_one_year(principal, annual_rate, years, compounds_per_year) ==
    IF compounds_per_year = 0 THEN Raise("ZeroDivisionError")
    ELSE
    LET final_amount ==
            Mul(principal,
                Pow(Add(Num(1), Div(annual_rate, Num(compounds_per_year))),
                    compounds_per_year))
        interest_earned == Sub(final_amount, principal)
    IN  IF IsZero(principal) THEN Raise("ZeroDivisionError")
        ELSE Value([final_amount      |-> final_amount,
                    interest_earned   |-> interest_earned,
                    growth_percentage |->
                        Mul(Div(interest_earned, principal), Hundred)])

calculate_compound_interest_locals(principal, annual_rate, years, compounds_per_year) ==
    IF compounds_per_year = 0 THEN Raise("ZeroDivisionError")
    ELSE
    LET final_amount ==
            Mul(principal,
                Pow(Add(Num(1), Div(annual_rate, Num(compounds_per_year))),
                    compounds_per_year * years))
        interest_earned == Sub(final_amount, principal)
    IN  IF IsZero(principal) THEN Raise("ZeroDivisionError")
        ELSE Value([final_amount      |-> final_amount,
                    interest_earned   |-> interest_earned,
                    growth_percentage |->
                        Mul(Div(interest_earned, principal), Hundred)])

calculate_compound_interest(principal, annual_rate, years, compounds_per_year) ==
    LET l == calculate_compound_interest_locals(principal, annual_rate, years,
                                                compounds_per_year)
    IN  IF l.kind # "value" THEN l
        ELSE Return([final_amount      |-> round(l.value.final_amount, 2),
                     interest_earned   |-> round(l.value.interest_earned, 2),
                     growth_percentage |-> round(l.value.growth_percentage, 2)])

\* The largest |k| for which IsPowerOf and log_ratio look for a ** k.
MaxLog == 4

\* x ** k for any integer k (x # 0 when k < 0).
PowZ(x, k) == IF k >= 0 THEN Pow(x, k) ELSE Pow(Div(Num(1), x), -k)

IsPowerOf(a, b) == \E k \in -MaxLog..MaxLog : PowZ(b, k) = a

\* math.log(a) / math.log(b) for a > 0, b > 0, b # 1, where a is a whole
\* power b ** k of b: the quotient of the logarithms is k.
log_ratio(a, b) == Num(CHOOSE k \in -MaxLog..MaxLog : PowZ(b, k) = a)

\* calculate_savings_goal_locals with the contribution validated: a
\* monthly_contribution <= 0 is refused as a domain error.
calculate_savings_goal_locals_validated(target_amount, monthly_contribution, annual_rate) ==
    LET monthly_rate == Div(annual_rate, Twelve)
    IN  IF Le(monthly_contribution, Zero) THEN Raise("ValueError")
        ELSE
        LET argument == Add(Num(1), Div(Mul(target_amount, monthly_rate),
                                        monthly_contribution))
            base == Add(Num(1), monthly_rate)
        IN  IF ~IsZero(monthly_rate) /\ (Le(argument, Zero) \/ Le(base, Zero))
            THEN Raise("ValueError")
            ELSE
            LET months == IF IsZero(monthly_rate)
                          THEN Div(target_amount, monthly_contribution)
                          ELSE log_ratio(argument, base)
            IN  Value([months |-> months, years |-> Div(months, Twelve)])

calculate_savings_goal_locals(target_amount, monthly_contribution, annual_rate) ==
    LET monthly_rate == Div(annual_rate, Twelve)
    IN  IF IsZero(monthly_contribution) THEN Raise("ZeroDivisionError")
        ELSE
        LET argument == Add(Num(1), Div(Mul(target_amount, monthly_rate),
                                        monthly_contribution))
            base == Add(Num(1), monthly_rate)
        IN  IF ~IsZero(monthly_rate) /\ (Le(argument, Zero) \/ Le(base, Zero))
            THEN Raise("ValueError")
            ELSE
            LET months == IF IsZero(monthly_rate)
                          THEN Div(target_amount, monthly_contribution)
                          ELSE log_ratio(argument, base)
            IN  Value([months |-> months, years |-> Div(months, Twelve)])

calculate_savings_goal(target_amount, monthly_contribution, annual_rate) ==
    LET l == calculate_savings_goal_locals(target_amount, monthly_contribution,
                                           annual_rate)
    IN  IF l.kind # "value" THEN l
        ELSE Return([months_to_goal |-> round(l.value.months, 1),
                     years_to_goal  |-> round(l.value.years, 1)])

---------------------------------------------------------------------------
(* The inputs the calls are drawn from.                                    *)

\* Whole amounts run from -1 to MaxAmount.
MaxAmount == 3

\* annual_cash_flows has at most MaxFlows entries.
MaxFlows == 3

\* years runs from 0 to MaxYears.
MaxYears == 2

\* -1, 0 and the whole amounts up to MaxAmount, and 0.125 and 0.375, which
\* binary floating point holds exactly and which lie halfway between two
\* multiples of 0.01.
Amounts == {Num(n) : n \in -1..MaxAmount} \cup {Rat(1, 8), Rat(3, 8)}

WholeAmounts == {Num(n) : n \in -1..MaxAmount}

\* The arguments of the calls demonstrate_business_analysis makes.
DemoRoi == <<Num(100000), Num(150000)>>

DemoBreakEven == <<Num(50000), Num(20), Num(50)>>

DemoProfitMargin == <<Num(500000), Num(350000)>>

DemoPayback ==
    <<Num(100000), <<Num(25000), Num(30000), Num(35000), Num(40000), Num(45000)>>>>

DemoRatios ==
    <<Num(1000000), Num(800000), Num(300000), Num(150000), Num(120000)>>

\* investment_period_years: omitted, 0, a unit fraction 1/e, or 2.
Periods == {None, Num(0), Num(1), Num(-1), Rat(1, 2), Num(2)}

\* With period 2 the root is taken to four decimals from 10^8 * n, n the
\* numerator of final_value/initial_investment, which has to stay below 2^31.
RoiInputs ==
    {a \in (Amounts \X Amounts \X Periods)
            \cup {<<DemoRoi[1], DemoRoi[2], p>> : p \in Periods} :
        (a[3] = Num(2) /\ ~IsZero(a[1])) => Div(a[2], a[1])[1] <= 21}

\* x lies halfway between two multiples of 10^-ndigits and is no binary
\* fraction: the float nearest to x lies beside the tie, and round() of it
\* goes where the float lies, not where the tie would go.
FloatTie(x, ndigits) ==
    LET twice == Mul(x, Num(2 * Pow10(ndigits)))
    IN  /\ twice[2] = 1
        /\ twice[1] % 2 # 0
        /\ \A k \in 0..30 : 2 ^ k # x[2]

\* A quotient that is such a tie (0.125 / 5 = 0.025) is left out.
BreakEvenInputs ==
    {a \in Amounts \X Amounts \X Amounts :
        LET l == calculate_break_even_point_locals(a[1], a[2], a[3])
        IN  l.kind = "value" =>
                /\ ~FloatTie(l.value.break_even_units, 2)
                /\ ~FloatTie(l.value.break_even_revenue, 2)}
        \cup {DemoBreakEven, <<Num(50000), Num(60), Num(50)>>}

ProfitMarginInputs ==
    (Amounts \X Amounts) \cup {DemoProfitMargin, <<Num(0), Num(100)>>}

RECURSIVE SeqsUpTo(_, _)
SeqsUpTo(S, n) ==
    IF n = 0 THEN {<<>>}
    ELSE LET shorter == SeqsUpTo(S, n - 1)
         IN  shorter \cup {Append(q, x) : q \in shorter, x \in S}

PaybackInputs ==
    (Amounts \X SeqsUpTo(WholeAmounts, MaxFlows)) \cup {DemoPayback}

RatioInputs ==
    (WholeAmounts \X WholeAmounts \X WholeAmounts \X WholeAmounts \X WholeAmounts)
        \cup {DemoRatios}

\* Annual rates whose monthly rate is -2, -1, 0 or 1: with these, and
\* with one year when the rate is positive, the powers
\* (1 + r/12) ** (12 * years) stay below 2^31.
LoanRates == {Num(-24), Num(-12), Num(0), Num(12)}

LoanInputs ==
    {<<p, r, y>> \in (Amounts \cup {Num(100)}) \X LoanRates \X (0..MaxYears) :
        Lt(Zero, r) => y <= 1}

CompoundRates == {Num(0), Rat(1, 5), Rat(1, 2), Num(1), Num(2)}

\* compounds_per_year is 0, 1 or 2, or omitted (the default), and then the
\* rate is a multiple of 12 and years at most 1.
CompoundInputs ==
    ((WholeAmounts \cup {Num(100)}) \X CompoundRates \X (0..MaxYears)
            \X {Num(0), Num(1), Num(2)})
        \cup ((WholeAmounts \cup {Num(100)}) \X {Num(0), Num(12)} \X {0, 1} \X {None})

\* Inputs whose logarithms the model computes: the rate is zero, or the
\* call raises, or the argument of the logarithm is a whole power of
\* 1 + monthly_rate.
SavingsInputs ==
    {<<t, c, r>> \in Amounts \X Amounts \X {Num(-24), Num(-12), Num(0), Num(6), Num(12)} :
        LET mr == Div(r, Twelve)
            a  == Add(Num(1), Div(Mul(t, mr), c))
        IN  \/ IsZero(c)
            \/ IsZero(mr)
            \/ Le(a, Zero)
            \/ Le(Add(Num(1), mr), Zero)
            \/ IsPowerOf(a, Add(Num(1), mr))}

Functions ==
    {"calculate_roi", "calculate_break_even_point", "calculate_profit_margin",
     "calculate_payback_period", "financial_ratio_analysis",
     "calculate_loan_payment", "calculate_compound_interest",
     "calculate_savings_goal"}

Inputs(f) ==
    CASE f = "calculate_roi"               -> RoiInputs
      [] f = "calculate_break_even_point"  -> BreakEvenInputs
      [] f = "calculate_profit_margin"     -> ProfitMarginInputs
      [] f = "calculate_payback_period"    -> PaybackInputs
      [] f = "financial_ratio_analysis"    -> RatioInputs
      [] f = "calculate_loan_payment"      -> LoanInputs
      [] f = "calculate_compound_interest" -> CompoundInputs
      [] f = "calculate_savings_goal"      -> SavingsInputs

---------------------------------------------------------------------------
(* The state machine: one call of one function.                            *)

Init ==
    /\ fn \in Functions
    /\ args \in Inputs(fn)
    /\ result = NoResult
    /\ history = <<>>
    /\ locals = NoLocals

Pending(f) == fn = f /\ result.kind = "none"

\* The call made, as history keeps it: the arguments as passed, what the
\* call produced and the arguments as the call left them.
Completed(produced, left) ==
    [fn |-> fn, args |-> args, result |-> produced, left |-> left]

CallRoi ==
    /\ Pending("calculate_roi")
    /\ result' = calculate_roi(args[1], args[2], args[3])
    /\ UNCHANGED <<fn, args, locals>>
    /\ history' = Append(history, Completed(result', args'))

CallBreakEven ==
    /\ Pending("calculate_break_even_point")
    /\ result' = calculate_break_even_point(args[1], args[2], args[3])
    /\ UNCHANGED <<fn, args, locals>>
    /\ history' = Append(history, Completed(result', args'))

CallProfitMargin ==
    /\ Pending("calculate_profit_margin")
    /\ result' = calculate_profit_margin(args[1], args[2])
    /\ UNCHANGED <<fn, args, locals>>
    /\ history' = Append(history, Completed(result', args'))

CallPayback ==
    /\ Pending("calculate_payback_period")
    /\ result' = calculate_payback_period(args[1], args[2])
    /\ args' = <<args[1], annual_cash_flows_after(args[1], args[2])>>
    /\ UNCHANGED <<fn, locals>>
    /\ history' = Append(history, Completed(result', args'))

CallRatios ==
    /\ Pending("financial_ratio_analysis")
    /\ result' = financial_ratio_analysis(args[1], args[2], args[3], args[4], args[5])
    /\ UNCHANGED <<fn, args, locals>>
    /\ history' = Append(history, Completed(result', args'))

CallLoanPayment ==
    /\ Pending("calculate_loan_payment")
    /\ result' = calculate_loan_payment(args[1], args[2], args[3])
    /\ UNCHANGED <<fn, args, locals>>
    /\ history' = Append(history, Completed(result', args'))

CallCompoundInterest ==
    /\ Pending("calculate_compound_interest")
    /\ result' = calculate_compound_interest(
                     args[1], args[2], args[3],
                     IF args[4] = None THEN DefaultCompounds ELSE args[4][1])
    /\ UNCHANGED <<fn, args, locals>>
    /\ history' = Append(history, Completed(result', args'))

CallSavingsGoal ==
    /\ Pending("calculate_savings_goal")
    /\ result' = calculate_savings_goal(args[1], args[2], args[3])
    /\ UNCHANGED <<fn, args, locals>>
    /\ history' = Append(history, Completed(result', args'))

Next ==
    \/ CallRoi
    \/ CallBreakEven
    \/ CallProfitMargin
    \/ CallPayback
    \/ CallRatios
    \/ CallLoanPayment
    \/ CallCompoundInterest
    \/ CallSavingsGoal

Spec == Init /\ [][Next]_vars

---------------------------------------------------------------------------
(* A session: the caller makes one call after another, as the             *)
(* demonstrations of src/main.py do, with fresh arguments or with the     *)
(* objects it has passed before.                                          *)

\* A session has at most MaxCalls calls.
MaxCalls == 3

\* The calls of a session: the demonstrations' and a few others, among them
\* calls that raise and calls that return the error dict.
SessionInputs(f) ==
    Inputs(f) \cap
        CASE f = "calculate_roi" ->
                {<<DemoRoi[1], DemoRoi[2], Num(1)>>, <<Num(0), Num(1), None>>}
          [] f = "calculate_break_even_point" ->
                {DemoBreakEven, <<Num(50000), Num(60), Num(50)>>}
          [] f = "calculate_profit_margin" -> {DemoProfitMargin}
          [] f = "calculate_payback_period" ->
                {DemoPayback, <<Num(3), <<Num(2), Num(3), Num(1)>>>>,
                 <<Num(0), <<Num(0)>>>>}
          [] f = "financial_ratio_analysis" -> {DemoRatios}
          [] f = "calculate_loan_payment" ->
                {<<Num(100), Num(12), 1>>, <<Num(3), Num(0), 1>>}
          [] f = "calculate_compound_interest" ->
                {<<Num(100), Rat(1, 5), 1, Num(1)>>}
          [] f = "calculate_savings_goal" ->
                {<<Num(3), Num(1), Num(0)>>, <<Num(-1), Num(-1), Num(12)>>}

\* The objects the caller has passed to f before, as the calls left them.
PassedBefore(f) == {history[i].left : i \in {j \in 1..Len(history) : history[j].fn = f}}

SessionInit ==
    /\ fn \in Functions
    /\ args \in SessionInputs(fn)
    /\ result = NoResult
    /\ history = <<>>
    /\ locals = NoLocals

\* The call has returned or raised, and the caller makes the next one.
NextCall ==
    /\ result.kind # "none"
    /\ Len(history) < MaxCalls
    /\ \E f \in Functions :
           \E a \in SessionInputs(f) \cup PassedBefore(f) :
               /\ fn' = f
               /\ args' = a
    /\ result' = NoResult
    /\ UNCHANGED <<history, locals>>

SessionNext ==
    \/ CallRoi
    \/ CallBreakEven
    \/ CallProfitMargin
    \/ CallPayback
    \/ CallRatios
    \/ CallLoanPayment
    \/ CallCompoundInterest
    \/ CallSavingsGoal
    \/ NextCall

SessionSpec == SessionInit /\ [][SessionNext]_vars

---------------------------------------------------------------------------
(* FinancialVisualizer.plot_loan_amortization,                            *)
(* src/finance_consulting/visualizer.py, run step by step: the payment,   *)
(* then the schedule loop one month at a time, then the chart.            *)

\* Monthly rates -1, 0 and 1.
AmortizationRates == {Num(-12), Num(0), Num(12)}

\* save_path: omitted, or the path create_sample_reports passes.
SavePaths == {None, <<"reports/loan_amortization.png">>}

\* With a rate other than 0 the term is at most one year, so that
\* (1 + monthly_rate) ** num_payments stays small.
AmortizationInputs ==
    {a \in (Amounts \cup {Num(100)}) \X AmortizationRates \X (0..MaxYears)
            \X SavePaths :
        ~IsZero(a[2]) => a[3] <= 1}

\* monthly_payment, or the exception its division raises.
amortization_payment(principal, annual_rate, years) ==
    LET monthly_rate == Div(annual_rate, Twelve)
        num_payments == years * 12
        growth == Pow(Add(Num(1), monthly_rate), num_payments)
    IN  IF IsZero(monthly_rate)
        THEN IF num_payments = 0 THEN Raise("ZeroDivisionError")
             ELSE Value(Div(principal, Num(num_payments)))
        ELSE IF IsZero(Sub(growth, Num(1))) THEN Raise("ZeroDivisionError")
             ELSE Value(Div(Mul(principal, Mul(monthly_rate, growth)),
                            Sub(growth, Num(1))))

\* amortization_body with the interest taken on the principal, not on
\* the remaining balance.
amortization_body_on_principal(l) ==
    LET month == l.month + 1
        interest_payment == Mul(l.principal, l.monthly_rate)
        principal_payment == Sub(l.monthly_payment, interest_payment)
    IN  [l EXCEPT !.month = month,
                  !.remaining_balance = Sub(@, principal_payment),
                  !.principal_payments = Append(@, principal_payment),
                  !.interest_payments = Append(@, interest_payment),
                  !.months = Append(@, month)]

\* One pass of the body of for month in range(1, num_payments + 1), from
\* the locals l; l.month is the month of the pass before, 0 before the
\* first.
amortization_body(l) ==
    LET month == l.month + 1
        interest_payment == Mul(l.remaining_balance, l.monthly_rate)
        principal_payment == Sub(l.monthly_payment, interest_payment)
    IN  [l EXCEPT !.month = month,
                  !.remaining_balance = Sub(@, principal_payment),
                  !.principal_payments = Append(@, principal_payment),
                  !.interest_payments = Append(@, interest_payment),
                  !.months = Append(@, month)]

AmortizationInit ==
    /\ fn = "plot_loan_amortization"
    /\ args \in AmortizationInputs
    /\ result = NoResult
    /\ history = <<>>
    /\ locals = NoLocals

\* plot_loan_amortization is in its loop or about to plot.
InSchedule ==
    /\ fn = "plot_loan_amortization"
    /\ result.kind = "none"
    /\ locals # NoLocals

\* Lines 27-39: the payment and the locals the loop starts from.
AmortizationSetup ==
    /\ Pending("plot_loan_amortization")
    /\ locals = NoLocals
    /\ LET payment == amortization_payment(args[1], args[2], args[3])
       IN  IF payment.kind = "raise"
           THEN /\ result' = payment
                /\ history' = Append(history, Completed(result', args))
                /\ UNCHANGED locals
           ELSE /\ locals' = [principal          |-> args[1],
                              monthly_rate       |-> Div(args[2], Twelve),
                              num_payments       |-> args[3] * 12,
                              monthly_payment    |-> payment.value,
                              remaining_balance  |-> args[1],
                              principal_payments |-> <<>>,
                              interest_payments  |-> <<>>,
                              months             |-> <<>>,
                              month              |-> 0]
                /\ UNCHANGED <<result, history>>
    /\ UNCHANGED <<fn, args>>

\* Lines 41-48: range yields the next month and the body runs once.
AmortizationStep ==
    /\ InSchedule
    /\ locals.month < locals.num_payments
    /\ locals' = amortization_body(locals)
    /\ UNCHANGED <<fn, args, result, history>>

\* Lines 50-66: range is exhausted; the chart is drawn and saved or shown.
AmortizationPlot ==
    /\ InSchedule
    /\ locals.month >= locals.num_payments
    /\ result' = Return(IF args[4] # None
                        THEN <<"Chart saved to", args[4][1]>>
                        ELSE <<"Chart displayed successfully">>)
    /\ history' = Append(history, Completed(result', args))
    /\ UNCHANGED <<fn, args, locals>>

AmortizationNext ==
    \/ AmortizationSetup
    \/ AmortizationStep
    \/ AmortizationPlot

AmortizationSpec == AmortizationInit /\ [][AmortizationNext]_vars

---------------------------------------------------------------------------
(* run_interactive_demo, src/main.py, run step by step. args is what the  *)
(* user types, one line after the other, a line being the sequence of its *)
(* characters; after the last line input() meets the end of the file.     *)
(* locals.pc is the place the function is at:                             *)
(*   "menu"       printing the menu            (lines 149-156)            *)
(*   "input"      at input()                   (line 159)                 *)
(*   "demo"       running the demos of todo    (lines 161-170)            *)
(*   "exit"       choice 5                     (lines 171-175)            *)
(*   "invalid"    the else branch              (lines 176-177)            *)
(*   "interrupt"  except KeyboardInterrupt     (lines 179-181)            *)
(*   "error"      except Exception             (lines 182-183)            *)
(*   "done"       the loop is left and the function has returned          *)
(*   "raised"     an exception has left the function                      *)
(* history keeps the demos run.                                           *)

\* The user types at most MaxLines lines.
MaxLines == 2

Whitespace == {" ", "\t"}

RECURSIVE lstrip(_)
lstrip(s) == IF s # <<>> /\ Head(s) \in Whitespace THEN lstrip(Tail(s)) ELSE s

RECURSIVE rstrip(_)
rstrip(s) ==
    IF s # <<>> /\ s[Len(s)] \in Whitespace
    THEN rstrip(SubSeq(s, 1, Len(s) - 1))
    ELSE s

\* str.strip(): the line without its leading and trailing whitespace.
strip(s) == rstrip(lstrip(s))

\* What the user may type on a line.
Lines ==
    {<<"1">>, <<"2">>, <<"3">>, <<"4">>, <<"5">>, <<" ", "5", "\t">>,
     <<"5", "0">>, <<"6">>, <<" ">>, <<>>}

\* The demos a choice runs, in their order.
demos(choice) ==
    CASE choice = <<"1">> -> <<"demonstrate_financial_calculations">>
      [] choice = <<"2">> -> <<"demonstrate_business_analysis">>
      [] choice = <<"3">> -> <<"create_sample_reports">>
      [] choice = <<"4">> -> <<"demonstrate_financial_calculations",
                              "demonstrate_business_analysis",
                              "create_sample_reports">>
      [] OTHER -> <<>>

\* Where the if chain of lines 161-177 goes with the choice.
branch(choice) ==
    IF demos(choice) # <<>> THEN "demo"
    ELSE IF choice = <<"5">> THEN "exit"
    ELSE "invalid"

\* The except clause that takes an exception raised in the try block:
\* KeyboardInterrupt first, then every Exception.
except(e) == IF e = "KeyboardInterrupt" THEN "interrupt" ELSE "error"

\* after_block with the handler of Exception ending the loop as well.
after_block_error_breaks(pc) ==
    IF pc \in {"exit", "interrupt", "error"} THEN "done" ELSE "menu"

\* Where the loop goes when the block at pc has run to its end: the blocks
\* of choice 5 and of KeyboardInterrupt end in break, after every other
\* one while True begins again.
after_block(pc) ==
    IF pc \in {"exit", "interrupt"} THEN "done" ELSE "menu"

\* A demo that was called and what it produced.
DemoRun(demo, produced) ==
    [fn |-> demo, args |-> <<>>, result |-> produced, left |-> <<>>]

MenuInit ==
    /\ fn = "run_interactive_demo"
    /\ args \in SeqsUpTo(Lines, MaxLines)
    /\ result = NoResult
    /\ history = <<>>
    /\ locals = [pc |-> "menu", read |-> 0, choice |-> <<>>, todo |-> <<>>, e |-> ""]

At(pc) == fn = "run_interactive_demo" /\ locals.pc = pc

\* The loop goes on at pc; when it is left the function returns None.
GoOn(pc) ==
    /\ locals' = [locals EXCEPT !.pc = pc, !.todo = <<>>, !.e = ""]
    /\ result' = IF pc = "done" THEN Return(None) ELSE result

\* Lines 149-156.
ShowMenu ==
    /\ At("menu")
    /\ locals' = [locals EXCEPT !.pc = "input"]
    /\ UNCHANGED <<fn, args, result, history>>

\* Lines 159-177: input() returns the next line and the if chain takes
\* its branch, or input() raises EOFError at the end of what was typed.
ReadChoice ==
    /\ At("input")
    /\ IF locals.read < Len(args)
       THEN LET choice == strip(args[locals.read + 1])
            IN  locals' = [locals EXCEPT !.read = @ + 1,
                                         !.choice = choice,
                                         !.todo = demos(choice),
                                         !.pc = branch(choice)]
       ELSE locals' = [locals EXCEPT !.pc = except("EOFError"), !.e = "EOFError"]
    /\ UNCHANGED <<fn, args, result, history>>

\* Lines 162-170: the next demo of the choice runs to its end.
DemoCompletes ==
    /\ At("demo")
    /\ history' = Append(history, DemoRun(Head(locals.todo), Return(None)))
    /\ IF Len(locals.todo) > 1
       THEN /\ locals' = [locals EXCEPT !.todo = Tail(@)]
            /\ UNCHANGED result
       ELSE GoOn(after_block("demo"))
    /\ UNCHANGED <<fn, args>>

\* Lines 162-170: the next demo of the choice raises an Exception
\* (os.makedirs in create_sample_reports, a print).
DemoRaises ==
    /\ At("demo")
    /\ history' = Append(history, DemoRun(Head(locals.todo), Raise("OSError")))
    /\ locals' = [locals EXCEPT !.pc = except("OSError"), !.e = "OSError", !.todo = <<>>]
    /\ UNCHANGED <<fn, args, result>>

\* Line 177.
InvalidChoice ==
    /\ At("invalid")
    /\ GoOn(after_block("invalid"))
    /\ UNCHANGED <<fn, args, history>>

\* Lines 172-175.
Exit ==
    /\ At("exit")
    /\ GoOn(after_block("exit"))
    /\ UNCHANGED <<fn, args, history>>

\* Lines 179-181.
HandleInterrupt ==
    /\ At("interrupt")
    /\ GoOn(after_block("interrupt"))
    /\ UNCHANGED <<fn, args, history>>

\* Lines 182-183.
HandleError ==
    /\ At("error")
    /\ GoOn(after_block("error"))
    /\ UNCHANGED <<fn, args, history>>

\* The user presses Ctrl-C: KeyboardInterrupt is raised where the function
\* is. In the try block the except clause takes it; while the menu is
\* printed or in a handler nothing does, and it leaves the function.
Interrupt ==
    /\ fn = "run_interactive_demo"
    /\ locals.pc \notin {"done", "raised"}
    /\ history' = IF locals.pc = "demo"
                  THEN Append(history, DemoRun(Head(locals.todo),
                                               Raise("KeyboardInterrupt")))
                  ELSE history
    /\ IF locals.pc \in {"input", "demo", "exit", "invalid"}
       THEN /\ locals' = [locals EXCEPT !.pc = except("KeyboardInterrupt"),
                                        !.e = "KeyboardInterrupt", !.todo = <<>>]
            /\ UNCHANGED result
       ELSE /\ locals' = [locals EXCEPT !.pc = "raised"]
            /\ result' = Raise("KeyboardInterrupt")
    /\ UNCHANGED <<fn, args>>

MenuNext ==
    \/ ShowMenu
    \/ ReadChoice
    \/ DemoCompletes
    \/ DemoRaises
    \/ InvalidChoice
    \/ Exit
    \/ HandleInterrupt
    \/ HandleError
    \/ Interrupt

MenuSpec == MenuInit /\ [][MenuNext]_vars

---------------------------------------------------------------------------
(* The claims.                                                             *)

\* The call of f has been made.
Called(f) == fn = f /\ result.kind # "none"

\* v has at most ndigits decimals.
IsDecimal(v, ndigits) == Pow10(ndigits) % v[2] = 0

\* v is x rounded to ndigits decimals: a multiple of 10^-ndigits at most
\* half of 10^-ndigits away from x.
Nearest(v, x, ndigits) ==
    /\ IsDecimal(v, ndigits)
    /\ LET off == Mul(Sub(x, v), Num(2 * Pow10(ndigits)))
       IN  Le(Num(-1), off) /\ Le(off, Num(1))

\* The sum of the first k entries of q.
RECURSIVE PrefixSum(_, _)
PrefixSum(q, k) == IF k = 0 THEN Zero ELSE Add(PrefixSum(q, k - 1), q[k])

BreakEvenKeys == {"break_even_units", "break_even_revenue", "contribution_margin"}

\* C1: calculate_break_even_point always returns; with
\* price_per_unit - variable_cost_per_unit <= 0 the dict holds the key error
\* alone, and otherwise exactly break_even_units = fixed_costs / margin,
\* break_even_revenue = (unrounded units) * price and contribution_margin,
\* each rounded to 2 decimals; (50000, 20, 50) gives 1666.67, 83333.33, 30.
C1_BreakEvenTagged ==
    Called("calculate_break_even_point") =>
        LET margin == Sub(args[3], args[2])
            units  == Div(args[1], margin)
        IN  /\ Returned
            /\ Le(margin, Zero) => Keys = {"error"}
            /\ Lt(Zero, margin) =>
                /\ Keys = BreakEvenKeys
                /\ Nearest(result.value.break_even_units, units, 2)
                /\ Nearest(result.value.break_even_revenue, Mul(units, args[3]), 2)
                /\ Nearest(result.value.contribution_margin, margin, 2)
            /\ args = DemoBreakEven =>
                result.value = [break_even_units    |-> Rat(166667, 100),
                                break_even_revenue  |-> Rat(8333333, 100),
                                contribution_margin |-> Num(30)]

\* Both variants of C1 are produced: the error of (50000, 60, 50) is a
\* returned dict of the one key, and here the demonstration's call has
\* returned its three numbers.
C1_Witness ==
    /\ Called("calculate_break_even_point")
    /\ args = DemoBreakEven
    /\ Returned
    /\ Keys = BreakEvenKeys
    /\ result.value.break_even_revenue = Rat(8333333, 100)

NonNegativeFlows(q) == \A i \in 1..Len(q) : Le(Zero, q[i])

\* Some non-empty prefix of the cash flows sums to the investment or more.
Recovered(investment, flows) ==
    \E k \in 1..Len(flows) : Le(investment, PrefixSum(flows, k))

\* C2: with initial_investment >= 0 and cash flows >= 0,
\* calculate_payback_period never raises; it returns the error dict exactly
\* when no prefix sum reaches initial_investment and
\* {payback_years, payback_months} exactly when one does.
C2_PaybackNeverFaults ==
    (/\ Called("calculate_payback_period")
     /\ Le(Zero, args[1])
     /\ NonNegativeFlows(args[2])) =>
        /\ Returned
        /\ Keys = {"error"} <=> ~Recovered(args[1], args[2])
        /\ Keys = {"payback_years", "payback_months"} <=> Recovered(args[1], args[2])

\* The first 1-based year whose prefix sum reaches the investment.
FirstRecoveryYear(investment, flows) ==
    CHOOSE k \in 1..Len(flows) :
        /\ Le(investment, PrefixSum(flows, k))
        /\ \A j \in 1..(k - 1) : Lt(PrefixSum(flows, j), investment)

\* C3: when calculate_payback_period returns years, k being the first year
\* whose cumulative total reaches initial_investment, payback_years is
\* (k - 1) + (initial_investment - total before year k) / cash flow of year
\* k, rounded to 2 decimals, and the cash flows after year k change
\* nothing: the call on the first k flows returns the same dict. The
\* demonstration's call gives 3.25.
C3_PaybackFirstYear ==
    (/\ Called("calculate_payback_period")
     /\ Returned
     /\ "payback_years" \in Keys) =>
        LET investment == args[1]
            flows == args[2]
            k == FirstRecoveryYear(investment, flows)
        IN  /\ Recovered(investment, flows)
            /\ Nearest(result.value.payback_years,
                       Add(Num(k - 1),
                           Div(Sub(investment, PrefixSum(flows, k - 1)), flows[k])),
                       2)
            /\ result = calculate_payback_period(investment, SubSeq(flows, 1, k))
            /\ args = DemoPayback => result.value.payback_years = Rat(325, 100)

\* A call that recovers the investment in the middle of its second year,
\* with a third cash flow left unread.
C3_Witness ==
    /\ Called("calculate_payback_period")
    /\ args = <<Num(3), <<Num(2), Num(3), Num(1)>>>>
    /\ Returned
    /\ result.value.payback_years = Rat(133, 100)

ProfitKeys == {"profit", "profit_margin_percentage", "profit_ratio"}

\* C4: calculate_profit_margin always returns its three fields; profit is
\* revenue - total_costs (the field holds it to 2 decimals, so exactly
\* when it is a whole number of cents); with revenue > 0 the margin is
\* round((revenue - total_costs) / revenue * 100, 2) and the ratio
\* round(profit / revenue, 4), and with revenue <= 0 both are 0;
\* (0, 100) gives -100, 0, 0.
C4_ProfitMargin ==
    Called("calculate_profit_margin") =>
        LET revenue == args[1]
            profit  == Sub(args[1], args[2])
        IN  /\ Returned
            /\ Keys = ProfitKeys
            /\ Nearest(result.value.profit, profit, 2)
            /\ IsDecimal(profit, 2) => result.value.profit = profit
            /\ Lt(Zero, revenue) =>
                /\ result.value.profit_margin_percentage =
                       round(Mul(Div(profit, revenue), Hundred), 2)
                /\ result.value.profit_ratio = round(Div(profit, revenue), 4)
            /\ Le(revenue, Zero) =>
                /\ result.value.profit_margin_percentage = Zero
                /\ result.value.profit_ratio = Zero
            /\ args = <<Num(0), Num(100)>> =>
                result.value = [profit |-> Num(-100),
                                profit_margin_percentage |-> Zero,
                                profit_ratio |-> Zero]

\* The zero guard at work: a negative revenue, whose quotient would not
\* be 0, reported with margin and ratio 0.
C4_Witness ==
    /\ Called("calculate_profit_margin")
    /\ args = <<Num(-1), Num(2)>>
    /\ Returned
    /\ result.value = [profit |-> Num(-3),
                       profit_margin_percentage |-> Zero,
                       profit_ratio |-> Zero]

\* round(x / y, 2) times `times` when y > 0, and 0 otherwise.
GuardedRatio(x, y, times) ==
    IF Lt(Zero, y) THEN round(Mul(Div(x, y), times), 2) ELSE Zero

\* C5: financial_ratio_analysis always returns, and each ratio is guarded
\* by its own denominator alone: asset_turnover_ratio and
\* return_on_assets_percentage by total_assets, current_ratio by
\* current_liabilities, net_profit_margin_percentage by revenue.
C5_RatiosGuardedSeparately ==
    Called("financial_ratio_analysis") =>
        LET revenue == args[1]
            total_assets == args[2]
            current_assets == args[3]
            current_liabilities == args[4]
            net_income == args[5]
        IN  /\ Returned
            /\ result.value.asset_turnover_ratio =
                   GuardedRatio(revenue, total_assets, Num(1))
            /\ result.value.current_ratio =
                   GuardedRatio(current_assets, current_liabilities, Num(1))
            /\ result.value.return_on_assets_percentage =
                   GuardedRatio(net_income, total_assets, Hundred)
            /\ result.value.net_profit_margin_percentage =
                   GuardedRatio(net_income, revenue, Hundred)

\* One denominator is not positive and the others are: revenue 0 zeroes
\* the net profit margin only.
C5_Witness ==
    /\ Called("financial_ratio_analysis")
    /\ args = <<Num(0), Num(3), Num(1), Num(2), Num(1)>>
    /\ Returned
    /\ result.value = [asset_turnover_ratio         |-> Zero,
                       current_ratio                |-> Rat(1, 2),
                       return_on_assets_percentage  |-> Rat(3333, 100),
                       net_profit_margin_percentage |-> Zero]

\* The values a returned result's fields were rounded from: the locals of
\* the call, under the keys of the result. An annualized ROI that is
\* irrational (a surd) is left out.
Unrounded ==
    CASE fn = "calculate_roi" ->
            LET l == calculate_roi_locals(args[1], args[2], args[3]).value
            IN  IF "annualized_roi" \in DOMAIN l /\ ~IsSurd(l.annualized_roi)
                THEN [roi_percentage |-> l.roi,
                      annualized_roi_percentage |-> l.annualized_roi]
                ELSE [roi_percentage |-> l.roi]
      [] fn = "calculate_break_even_point" ->
            calculate_break_even_point_locals(args[1], args[2], args[3]).value
      [] fn = "calculate_profit_margin" ->
            LET l == calculate_profit_margin_locals(args[1], args[2]).value
            IN  [profit |-> l.profit,
                 profit_margin_percentage |-> l.profit_margin,
                 profit_ratio |-> IF Lt(Zero, args[1])
                                  THEN Div(l.profit, args[1]) ELSE Zero]
      [] fn = "calculate_payback_period" ->
            calculate_payback_period_locals(args[1], args[2]).value
      [] fn = "financial_ratio_analysis" ->
            LET l == financial_ratio_analysis_locals(
                         args[1], args[2], args[3], args[4], args[5]).value
            IN  [asset_turnover_ratio         |-> l.asset_turnover,
                 current_ratio                |-> l.current_ratio,
                 return_on_assets_percentage  |-> l.roa,
                 net_profit_margin_percentage |-> l.net_profit_margin]
      [] fn = "calculate_loan_payment" ->
            calculate_loan_payment_locals(args[1], args[2], args[3]).value
      [] fn = "calculate_compound_interest" ->
            calculate_compound_interest_locals(
                args[1], args[2], args[3],
                IF args[4] = None THEN DefaultCompounds ELSE args[4][1]).value
      [] fn = "calculate_savings_goal" ->
            LET l == calculate_savings_goal_locals(args[1], args[2], args[3]).value
            IN  [months_to_goal |-> l.months, years_to_goal |-> l.years]

\* A call has returned numbers, not the error dict.
ReturnedNumbers == Returned /\ "error" \notin Keys

\* C6 as stated: every numeric field of every result is the computed
\* value rounded to 2 decimals, profit_ratio alone to 4.
C6_TwoDecimalsButProfitRatio ==
    ReturnedNumbers =>
        \A k \in DOMAIN Unrounded :
            result.value[k] =
                round(Unrounded[k], IF k = "profit_ratio" THEN 4 ELSE 2)

\* The decimals each field is rounded to.
Digits(k) ==
    CASE k = "profit_ratio" -> 4
      [] k \in {"payback_months", "months_to_goal", "years_to_goal"} -> 1
      [] OTHER -> 2

\* C6, amended: every numeric field of every result is the computed value
\* rounded to 2 decimals, except profit_ratio (4 decimals) and
\* payback_months, months_to_goal and years_to_goal (1 decimal).
C6_RoundingDigits ==
    ReturnedNumbers =>
        \A k \in DOMAIN Unrounded :
            result.value[k] = round(Unrounded[k], Digits(k))

\* 2.25 months of payback are returned as 2.2, not as 2.25.
C6_Witness ==
    /\ Called("calculate_payback_period")
    /\ args = <<Rat(3, 8), <<Num(2)>>>>
    /\ Returned
    /\ Unrounded.payback_months = Rat(225, 100)
    /\ result.value.payback_months = Rat(22, 10)

\* C7 as stated: calculate_roi raises for every initial_investment <= 0 and
\* returns only when initial_investment > 0.
C7_RoiFaultsWhenNotPositive ==
    Called("calculate_roi") =>
        /\ Le(args[1], Zero) => Raised
        /\ Returned => Lt(Zero, args[1])

\* C7, amended: calculate_roi raises (ZeroDivisionError) for every call
\* with initial_investment = 0, whatever final_value and the period are,
\* and returns only when initial_investment # 0; with a negative
\* initial_investment and the period omitted or 0 it returns
\* roi_percentage.
C7_RoiFaultsAtZero ==
    Called("calculate_roi") =>
        /\ IsZero(args[1]) => Raised /\ result.exc = "ZeroDivisionError"
        /\ Returned => ~IsZero(args[1])
        /\ (Lt(args[1], Zero) /\ args[3] \in {None, Num(0)}) =>
            /\ Returned
            /\ result.value =
                   [roi_percentage |->
                       round(Mul(Div(Sub(args[2], args[1]), args[1]), Hundred), 2)]

\* A negative initial_investment that returns: (-1, 2) gives -300.
C7_Witness ==
    /\ Called("calculate_roi")
    /\ args = <<Num(-1), Num(2), None>>
    /\ Returned
    /\ result.value.roi_percentage = Num(-300)

RoiValue(initial_investment, final_value) ==
    round(Mul(Div(Sub(final_value, initial_investment), initial_investment),
              Hundred), 2)

SameButRate == {a \in CompoundInputs : a[1] = args[1] /\ a[3] = args[3] /\ a[4] = args[4]}

SameButYears == {a \in CompoundInputs : a[1] = args[1] /\ a[2] = args[2] /\ a[4] = args[4]}

Compounds(a) == IF a[4] = None THEN DefaultCompounds ELSE a[4][1]

\* final_amount as calculate_compound_interest returns it for a.
FinalAmount(a) ==
    calculate_compound_interest(a[1], a[2], a[3], Compounds(a)).value.final_amount

\* final_amount before the rounding.
UnroundedFinalAmount(a) ==
    calculate_compound_interest_locals(a[1], a[2], a[3], Compounds(a)).value.final_amount

\* The call is one C9 speaks of: principal > 0, rate >= 0, years > 0.
CompoundCase ==
    /\ Called("calculate_compound_interest")
    /\ Returned
    /\ Lt(Zero, args[1])
    /\ Le(Zero, args[2])
    /\ args[3] > 0

\* C9 as stated: final_amount is strictly larger for every larger rate (the
\* rest the same) and for every larger number of years (the rest the same).
C9_StrictlyIncreasing ==
    CompoundCase =>
        /\ \A a \in SameButRate :
               Lt(args[2], a[2]) => Lt(result.value.final_amount, FinalAmount(a))
        /\ \A a \in SameButYears :
               args[3] < a[3] => Lt(result.value.final_amount, FinalAmount(a))

\* C9, amended: for principal > 0, rate >= 0 and years > 0 the unrounded
\* final amount strictly increases with the rate, and strictly increases
\* with the years when the rate is > 0; at rate 0 it is the principal for
\* every number of years. The returned final_amount, rounded to 2
\* decimals, never decreases with the rate or the years.
C9_IncreasingUnrounded ==
    CompoundCase =>
        /\ \A a \in SameButRate :
               Lt(args[2], a[2]) =>
                   /\ Lt(UnroundedFinalAmount(args), UnroundedFinalAmount(a))
                   /\ Le(result.value.final_amount, FinalAmount(a))
        /\ \A a \in SameButYears :
               args[3] < a[3] =>
                   /\ Le(result.value.final_amount, FinalAmount(a))
                   /\ Lt(Zero, args[2]) =>
                          Lt(UnroundedFinalAmount(args), UnroundedFinalAmount(a))
                   /\ IsZero(args[2]) => FinalAmount(a) = round(args[1], 2)

\* A positive rate with a call of more years to compare with.
C9_Witness ==
    /\ CompoundCase
    /\ args = <<Num(100), Rat(1, 5), 1, Num(1)>>
    /\ result.value.final_amount = Num(120)
    /\ \E a \in SameButYears : a[3] = 2 /\ FinalAmount(a) = Num(144)

\* The call is one C10 speaks of: a returned loan payment with years > 0.
LoanCase == Called("calculate_loan_payment") /\ Returned /\ args[3] > 0

\* C10 as stated: the returned total_payment is the returned
\* monthly_payment times num_payments = years * 12.
C10_TotalIsReturnedPaymentTimesN ==
    LoanCase =>
        result.value.total_payment =
            Mul(result.value.monthly_payment, Num(args[3] * 12))

\* The annuity payment P * r(1+r)^n / ((1+r)^n - 1) of the monthly rate r.
Annuity(principal, r, n) ==
    Div(Mul(principal, Mul(r, Pow(Add(Num(1), r), n))),
        Sub(Pow(Add(Num(1), r), n), Num(1)))

\* C10, amended: for years > 0 the returned total_payment is the unrounded
\* monthly payment times num_payments = years * 12, rounded to 2 decimals
\* (the principal itself in the zero-rate branch); it differs from the
\* returned monthly_payment times num_payments by at most
\* 0.005 * (num_payments + 1).
C10_TotalFromUnroundedPayment ==
    LoanCase =>
        LET n == args[3] * 12
            r == Div(args[2], Twelve)
            payment == IF IsZero(r) THEN Div(args[1], Num(n))
                       ELSE Annuity(args[1], r, n)
            gap == Sub(result.value.total_payment,
                       Mul(result.value.monthly_payment, Num(n)))
        IN  /\ result.value.monthly_payment = round(payment, 2)
            /\ result.value.total_payment = round(Mul(payment, Num(n)), 2)
            /\ IsZero(r) => result.value.total_payment = round(args[1], 2)
            /\ Le(Mul(gap, Num(200)), Num(n + 1))
            /\ Le(Num(-(n + 1)), Mul(gap, Num(200)))

\* The annuity branch: 100 at a monthly rate of 1 over 12 months pays
\* 100.02 a month and 1200.29 in all, not 12 * 100.02 = 1200.24.
C10_Witness ==
    /\ LoanCase
    /\ args = <<Num(100), Num(12), 1>>
    /\ result.value.monthly_payment = Rat(10002, 100)
    /\ result.value.total_payment = Rat(120029, 100)

\* A call of calculate_savings_goal with a non-zero annual_rate has been made.
SavingsCase == Called("calculate_savings_goal") /\ ~IsZero(args[3])

\* The argument of the logarithm, 1 + target_amount * monthly_rate /
\* monthly_contribution, of the call made (monthly_contribution # 0).
LogArgument ==
    Add(Num(1), Div(Mul(args[1], Div(args[3], Twelve)), args[2]))

SavingsKeys == {"months_to_goal", "years_to_goal"}

\* C11 as stated: with a non-zero annual_rate calculate_savings_goal raises
\* exactly when the argument of the logarithm is <= 0, which is exactly
\* when monthly_contribution <= 0 or monthly_rate <= -1, and for every
\* other input it returns {months_to_goal, years_to_goal}.
C11_DomainErrorIffContributionOrRate ==
    SavingsCase =>
        /\ ~IsZero(args[2]) => (Raised <=> Le(LogArgument, Zero))
        /\ Raised <=> (Le(args[2], Zero) \/ Le(Div(args[3], Twelve), Num(-1)))
        /\ ~Raised => Returned /\ Keys = SavingsKeys

\* C11, amended: with a non-zero annual_rate calculate_savings_goal raises
\* ZeroDivisionError when monthly_contribution = 0; otherwise it raises the
\* domain error (ValueError) exactly when the argument of the logarithm is
\* <= 0 or 1 + monthly_rate <= 0, and for every other input it returns
\* {months_to_goal, years_to_goal}. With target_amount >= 0,
\* monthly_contribution > 0 and monthly_rate > 0 it always returns.
C11_DomainErrorIffLogOfNonPositive ==
    SavingsCase =>
        LET monthly_rate == Div(args[3], Twelve)
        IN  /\ IsZero(args[2]) => Raised /\ result.exc = "ZeroDivisionError"
            /\ ~IsZero(args[2]) =>
                /\ Raised <=> (\/ Le(LogArgument, Zero)
                               \/ Le(Add(Num(1), monthly_rate), Zero))
                /\ Raised => result.exc = "ValueError"
            /\ ~Raised => Returned /\ Keys = SavingsKeys
            /\ (Le(Zero, args[1]) /\ Lt(Zero, args[2]) /\ Lt(Zero, monthly_rate)) =>
                Returned

\* A negative contribution that returns: (-1, -1, 12) has the logarithm's
\* argument 2 and the base 2, and takes 1 month.
C11_Witness ==
    /\ SavingsCase
    /\ args = <<Num(-1), Num(-1), Num(12)>>
    /\ Returned
    /\ result.value.months_to_goal = Num(1)

AmortizationCase ==
    /\ fn = "plot_loan_amortization"
    /\ Lt(Zero, args[1])
    /\ Le(Zero, args[2])
    /\ args[3] >= 1

\* The sum of the entries lo..hi of q, by halves.
RECURSIVE RangeSum(_, _, _)
RangeSum(q, lo, hi) ==
    IF lo > hi THEN Zero
    ELSE IF lo = hi THEN q[lo]
    ELSE LET mid == (lo + hi) \div 2
         IN  Add(RangeSum(q, lo, mid), RangeSum(q, mid + 1, hi))

\* C13: for principal > 0, annual_rate >= 0 and years >= 1 the schedule
\* loop of plot_loan_amortization takes exactly years * 12 steps, month by
\* month; every step takes a principal payment > 0 off remaining_balance,
\* which therefore strictly decreases at every step; and when the loop is
\* left remaining_balance is 0: the principal payments sum to the
\* principal.
C13_AmortizationSchedule ==
    AmortizationCase =>
        /\ ~Raised
        /\ locals # NoLocals =>
            LET paid == locals.principal_payments
                n == args[3] * 12
            IN  /\ locals.num_payments = n
                /\ locals.month <= n
                /\ Len(paid) = locals.month
                /\ locals.months = [i \in 1..locals.month |-> i]
                /\ \A i \in 1..Len(paid) : Lt(Zero, paid[i])
                /\ locals.remaining_balance =
                       Sub(args[1], RangeSum(paid, 1, Len(paid)))
                /\ locals.month < n => Lt(Zero, locals.remaining_balance)
                /\ Returned =>
                    /\ locals.month = n
                    /\ IsZero(locals.remaining_balance)
                    /\ RangeSum(paid, 1, n) = args[1]

\* 100 at a monthly rate of 1 over one year: 12 steps, the first principal
\* payment 100/4095, the balance 0 at the end.
C13_Witness ==
    /\ AmortizationCase
    /\ args[1] = Num(100)
    /\ args[2] = Num(12)
    /\ Returned
    /\ Len(locals.months) = 12
    /\ locals.principal_payments[1] = Rat(100, 4095)
    /\ IsZero(locals.remaining_balance)


---------------------------------------------------------------------------
(* run_interactive_demo's menu loop.                                      *)

\* The loop of run_interactive_demo is left.
MenuLeft == locals.pc \in {"done", "raised"}

\* The step is a KeyboardInterrupt's: one that is raised, or the caught one
\* whose handler runs.
InterruptStep ==
    \/ locals.pc = "interrupt"
    \/ locals'.pc \in {"interrupt", "raised"}

\* The step ends the block a pass of the loop ran: the else branch, the
\* handler of Exception, or the last demo of the choice.
EndsOtherEvent ==
    \/ locals.pc \in {"invalid", "error"}
    \/ locals.pc = "demo" /\ Len(locals.todo) = 1 /\ locals'.pc # "error"

\* C14: run_interactive_demo leaves its loop only in a step that follows
\* a line whose stripped text is "5" or in a step of a KeyboardInterrupt;
\* an exception that is no KeyboardInterrupt, raised by input() or by a
\* demo, goes to the handler of Exception; and after an unrecognised
\* choice, a completed demo or that handler the menu is printed again
\* unless a KeyboardInterrupt occurs.
C14_MenuLoopLeftOnlyByFiveOrInterrupt ==
    [][ /\ (~MenuLeft /\ MenuLeft') =>
              \/ /\ locals.pc = "exit"
                 /\ locals.read > 0
                 /\ strip(args[locals.read]) = <<"5">>
              \/ InterruptStep
        /\ (locals.pc \in {"input", "demo"} /\ locals'.e \notin {"", "KeyboardInterrupt"}) =>
              locals'.pc = "error"
        /\ EndsOtherEvent => (locals'.pc = "menu" \/ InterruptStep)
      ]_vars

\* The first line typed was 3, create_sample_reports raised, and the menu is
\* printed again with a line still to read.
C14_Witness ==
    /\ fn = "run_interactive_demo"
    /\ locals.pc = "menu"
    /\ locals.read = 1
    /\ args = <<<<"3">>, <<" ", "5", "\t">>>>
    /\ history = <<DemoRun("create_sample_reports", Raise("OSError"))>>
    /\ result = NoResult

=============================================================================
